---- MODULE Spec2Model ----
(***************************************************************************)
(* Flash Prompter (src/src/App.tsx): the playback clock, the mode state    *)
(* machine and the settings store of the App component, as a state machine.*)
(*                                                                         *)
(* Numbers.  progress and startProgressRef are fractions; they are kept as *)
(* integer numerators over PDen (progress 1 is PDen).  Timestamps are in   *)
(* milliseconds.  The JavaScript value NaN is the distinguished value NaN; *)
(* arithmetic and comparisons treat it as JavaScript does.                 *)
(*                                                                         *)
(* Rendering.  A handler and the re-render and effects it causes are one   *)
(* step: React commits the state of a discrete event before the next one.  *)
(***************************************************************************)
EXTENDS Integers, Sequences, FiniteSets, TLC

VARIABLES
    mounted,            \* the mount effects (lines 51-123) have run
    mode,               \* useState<Mode>, line 35
    isPlaying,          \* line 36
    progress,           \* line 37, numerator over PDen, or NaN
    content,            \* line 38, a sequence of characters
    settings,           \* line 39
    startTime,          \* startTimeRef.current, line 41 (null or a timestamp)
    startProgress,      \* startProgressRef.current, line 42
    settingsReturnMode, \* settingsReturnModeRef.current, line 44
    scheduled,          \* a requestAnimationFrame callback of the tick chain is pending
    clock,              \* timestamp of the latest animation frame delivered
    storage,            \* localStorage item SETTINGS_KEY
    os,                 \* autostart state held by the operating system
    loadPc,             \* position of load(): "idle", "awaiting" (isEnabled in flight), "done"
    stored,             \* the local variable stored of load()
    pending,            \* enable()/disable() calls in flight, in issue order
    pausedAt,           \* history: progress at the last pause(), null once resumed, stopped or edited
    resumeFrom,         \* history: progress at the pause() that the current interval resumed, or null
    openedAt,           \* history: progress when Settings was opened while playing, null once paused, stopped, edited or completed
    restored,           \* history: restoreDefaults() ran and no user settings change since
    settled,            \* history: the bridge call that settled last, and whether it took effect
    unhandled,          \* a rejected promise escaped every catch block
    rejected,           \* history: some enable() or disable() call was rejected
    setAlwaysOnTop      \* calls of windowHandle.setAlwaysOnTop(true) issued by the latest step

vars == <<mounted, mode, isPlaying, progress, content, settings, startTime,
          startProgress, settingsReturnMode, scheduled, clock, storage, os,
          loadPc, stored, pending, pausedAt, resumeFrom, openedAt, restored,
          settled, unhandled, rejected, setAlwaysOnTop>>

----------------------------------------------------------------------------
(* Bounds of the model *)

MaxSeconds == 12
MaxPending == 2

----------------------------------------------------------------------------
(* Program constants *)

WORDS_PER_MINUTE == 60
LINE_HEIGHT == 48
FONT_SIZE == 34

null == -1
NaN == -1000000

\* DEFAULT_TEXT, each word abbreviated to one letter, whitespace kept
DEFAULT_TEXT == <<"a", " ", "b", " ", "c", "\n", "\n", "d", "\n", "e", "\n", "\n", "f">>

DEFAULT_SETTINGS ==
    [wordsPerMinute |-> WORDS_PER_MINUTE, fontSize |-> FONT_SIZE,
     lineHeight |-> LINE_HEIGHT, autoStart |-> FALSE]

----------------------------------------------------------------------------
(* JavaScript values as they appear in the persisted record *)

Undefined == [k |-> "undefined", n |-> 0]
Null == [k |-> "null", n |-> 0]
Num(n) == [k |-> "number", n |-> n]
\* a string, with the number that Number() makes of it
Str(n) == [k |-> "string", n |-> n]
Bool(b) == [k |-> "boolean", n |-> IF b THEN 1 ELSE 0]

ToNumber(v) ==
    CASE v.k = "undefined" -> NaN
      [] v.k = "null" -> 0
      [] OTHER -> v.n

ToBoolean(v) ==
    CASE v.k \in {"undefined", "null"} -> FALSE
      [] v.k = "number" -> v.n # 0 /\ v.n # NaN
      [] v.k = "string" -> TRUE
      [] OTHER -> v.n = 1

\* a ?? d
Coalesce(a, d) == IF a.k \in {"undefined", "null"} THEN d ELSE a

MathMax(a, b) == IF a = NaN \/ b = NaN THEN NaN ELSE IF a >= b THEN a ELSE b
MathMin(a, b) == IF a = NaN \/ b = NaN THEN NaN ELSE IF a <= b THEN a ELSE b

clamp(value, min, max) == MathMin(max, MathMax(min, value))

normalizeSettings(value) ==
    [wordsPerMinute |-> clamp(ToNumber(Coalesce(value.wordsPerMinute, Num(WORDS_PER_MINUTE))), 20, 240),
     fontSize |-> clamp(ToNumber(Coalesce(value.fontSize, Num(FONT_SIZE))), 20, 64),
     lineHeight |-> clamp(ToNumber(Coalesce(value.lineHeight, Num(LINE_HEIGHT))), 28, 96),
     autoStart |-> ToBoolean(value.autoStart)]

EmptyObject ==
    [wordsPerMinute |-> Undefined, fontSize |-> Undefined,
     lineHeight |-> Undefined, autoStart |-> Undefined]

Obj(w, f, l, a) == [wordsPerMinute |-> w, fontSize |-> f, lineHeight |-> l, autoStart |-> a]

\* What localStorage.getItem returns: null, "", text that is not JSON,
\* JSON of a non-object (no own property named like a setting), JSON of an object
Item(kind, obj) == [kind |-> kind, obj |-> obj]

\* JSON.stringify(settings): NaN is written as null
JSONnumber(x) == IF x = NaN THEN Null ELSE Num(x)

JSONstringify(s) ==
    Item("object", Obj(JSONnumber(s.wordsPerMinute), JSONnumber(s.fontSize),
                       JSONnumber(s.lineHeight), Bool(s.autoStart)))

\* lines 67-73: stored after the try block
ReadStored(raw) ==
    IF raw.kind \in {"null", "empty"} THEN EmptyObject
    ELSE IF raw.kind = "invalid" THEN EmptyObject
    ELSE IF raw.kind = "object" THEN raw.obj
    ELSE EmptyObject

\* { autoStart, ...stored }: the persisted autoStart wins when it is there
SpreadAutoStart_storedWins(st, autoStart) ==
    IF st.autoStart.k = "undefined" THEN [st EXCEPT !.autoStart = Bool(autoStart)] ELSE st

\* { ...stored, autoStart }
SpreadAutoStart(st, autoStart) == [st EXCEPT !.autoStart = Bool(autoStart)]

----------------------------------------------------------------------------
(* Script and duration *)

IsSpace(c) == c \in {" ", "\n"}

\* content.trim().split(/\s+/).filter(Boolean).length
WordsLength(text) ==
    Cardinality({i \in 1..Len(text) :
        /\ ~IsSpace(text[i])
        /\ (i = 1 \/ IsSpace(text[i - 1]))})

totalWords(text) == IF WordsLength(text) = 0 THEN 1 ELSE WordsLength(text)

OneWord == <<>>
TenWords == <<"a", " ", "b", " ", "c", " ", "d", " ", "e", " ", "f", " ", "g", " ", "h", " ", "i", " ", "j">>
EditTexts == {OneWord, TenWords}

\* the least number that every word count of the model divides
WordsLcm ==
    LET counts == {totalWords(text) : text \in {DEFAULT_TEXT} \cup EditTexts}
        common(n) == \A w \in counts : n % w = 0
    IN  CHOOSE n \in 1..(totalWords(DEFAULT_TEXT) * totalWords(TenWords)) :
           common(n) /\ \A m \in 1..(n - 1) : ~common(m)

\* progress 1 as a numerator: elapsed ms * wpm / (60000 * words) is then whole
PDen == 60000 * WordsLcm

\* Object.is(totalSeconds, totalSeconds') for totalSeconds = words / (wpm / 60)
SameTotalSeconds(w1, m1, w2, m2) ==
    IF m1 = NaN \/ m2 = NaN THEN m1 = m2 ELSE w1 * m2 = w2 * m1

\* elapsed / totalSeconds with the length of the script left out
ElapsedOverTotal_ignoresWords(ms, text, wpm) ==
    IF wpm = NaN THEN NaN ELSE ms * wpm * WordsLcm

\* elapsed / totalSeconds as a numerator over PDen, elapsed = ms / 1000
ElapsedOverTotal(ms, text, wpm) ==
    IF wpm = NaN THEN NaN ELSE ms * wpm * (WordsLcm \div totalWords(text))

Plus(a, b) == IF a = NaN \/ b = NaN THEN NaN ELSE a + b

\* a >= b in JavaScript
Geq(a, b) == a # NaN /\ b # NaN /\ a >= b

----------------------------------------------------------------------------
(* Inputs of the model *)

\* persisted records present at process start
InitialItems ==
    { Item("null", EmptyObject),
      Item("invalid", EmptyObject),
      Item("scalar", EmptyObject),
      Item("object", Obj(Num(500), Num(100), Num(200), Bool(TRUE))),
      Item("object", Obj(Num(5), Num(5), Num(5), Bool(FALSE))),
      Item("object", Obj(Num(120), Undefined, Null, Bool(TRUE))),
      Item("object", Obj(Str(NaN), Undefined, Undefined, Bool(FALSE))),
      Item("object", Obj(Str(100), Null, Undefined, Bool(FALSE))),
      Item("object", Obj(Undefined, Str(NaN), Bool(TRUE), Bool(FALSE))) }

\* the records among them that differ in the speed alone
SpeedItems == {item \in InitialItems :
                 /\ item.obj.fontSize.k \in {"undefined", "null"}
                 /\ item.obj.lineHeight.k \in {"undefined", "null"}}

\* values the sliders deliver (lines 405-452)
SliderWordsPerMinute == {20, 60, 240}
SliderFontSize == {64}
SliderLineHeight == {28}

\* milliseconds between two animation frames
FrameGaps == {1000, 5000, 6000}

----------------------------------------------------------------------------
(* Effects that follow a state change *)

\* the effect without its cleanup: the pending frame is never cancelled
TickEffect_noCleanup(st) ==
    LET runs == \/ isPlaying' # isPlaying
                \/ ~SameTotalSeconds(totalWords(content), settings.wordsPerMinute,
                                     totalWords(content'), settings'.wordsPerMinute)
    IN  /\ startTime' = IF runs /\ isPlaying' THEN null ELSE st
        /\ scheduled' = IF runs /\ isPlaying' THEN TRUE ELSE scheduled

\* lines 96-123: the effect runs again when isPlaying or totalSeconds changed;
\* its cleanup cancels the pending frame, its body re-arms the chain.
\* st is startTimeRef.current as the handler left it.
TickEffect(st) ==
    LET runs == \/ isPlaying' # isPlaying
                \/ ~SameTotalSeconds(totalWords(content), settings.wordsPerMinute,
                                     totalWords(content'), settings'.wordsPerMinute)
    IN  /\ startTime' = IF runs /\ isPlaying' THEN null ELSE st
        /\ scheduled' = IF runs THEN isPlaying' ELSE scheduled

\* lines 88-94
PersistEffect == storage' = JSONstringify(settings')

\* what the playback and mode handlers never touch
outside == <<mounted, settings, storage, os, loadPc, stored, pending, restored,
             settled, unhandled, rejected>>

\* what the settings store never touches
playback == <<mounted, mode, progress, startProgress, settingsReturnMode, clock,
              pausedAt, resumeFrom, openedAt>>

\* a step in which the host window is not called
NoWindowCall == setAlwaysOnTop' = 0

\* lines 51-53: the window handle is there once the mount effects have run
windowRef == mounted

Call(op, by, next, was) == [op |-> op, by |-> by, next |-> next, was |-> was]
NoCall == Call("none", "none", FALSE, FALSE)

Init ==
    /\ mounted = FALSE
    /\ mode = "input"
    /\ isPlaying = FALSE
    /\ progress = 0
    /\ content = DEFAULT_TEXT
    /\ settings = DEFAULT_SETTINGS
    /\ startTime = null
    /\ startProgress = 0
    /\ settingsReturnMode = "input"
    /\ scheduled = FALSE
    /\ clock = 0
    /\ storage \in InitialItems
    /\ os \in BOOLEAN
    /\ loadPc = "idle"
    /\ stored = EmptyObject
    /\ pending = <<>>
    /\ pausedAt = null
    /\ resumeFrom = null
    /\ openedAt = null
    /\ restored = FALSE
    /\ settled = [call |-> NoCall, ok |-> TRUE]
    /\ unhandled = FALSE
    /\ rejected = FALSE
    /\ setAlwaysOnTop = 0

\* first commit: load() runs up to await isEnabled(), then the persist effect
Mount ==
    /\ ~mounted
    /\ mounted' = TRUE
    /\ stored' = ReadStored(storage)
    /\ loadPc' = "awaiting"
    /\ storage' = JSONstringify(settings)
    /\ UNCHANGED <<mode, isPlaying, progress, content, settings, startTime,
                   startProgress, settingsReturnMode, scheduled, clock, os,
                   pending, pausedAt, resumeFrom, openedAt, restored, settled,
                   unhandled, rejected>>
    /\ NoWindowCall

\* lines 75-80: the value of autoStart once isEnabled() settled
liveAutoStart(ok) == IF ok THEN os ELSE FALSE

\* lines 75-82: isEnabled() settles (ok: it resolved), then setSettings
loadCompletes(ok) ==
    /\ loadPc = "awaiting"
    /\ settings' = normalizeSettings(SpreadAutoStart(stored, liveAutoStart(ok)))
    /\ loadPc' = "done"
    /\ stored' = EmptyObject
    /\ PersistEffect
    /\ UNCHANGED <<isPlaying, content>>
    /\ TickEffect(startTime)
    /\ NoWindowCall
    /\ UNCHANGED <<os, pending, restored, settled, unhandled, rejected>>
    /\ UNCHANGED playback

\* the isEnabled() query of load() resolves or is rejected
LoadComplete == \E ok \in BOOLEAN : loadCompletes(ok)

----------------------------------------------------------------------------
(* Playback clock *)

\* lines 131-137
enterPrompter ==
    /\ mode' = "prompter"
    /\ setAlwaysOnTop' = IF windowRef THEN 1 ELSE 0

\* start() that rewinds on every call, not only from the input screen
handleStart_alwaysRewinds ==
    /\ progress' = 0
    /\ startProgress' = 0
    /\ mode' = "prompter"
    /\ setAlwaysOnTop' = IF windowRef /\ mode = "input" THEN 1 ELSE 0
    /\ isPlaying' = TRUE
    /\ UNCHANGED content
    /\ UNCHANGED outside
    /\ TickEffect(null)
    /\ resumeFrom' = IF mode = "input" THEN null ELSE pausedAt
    /\ openedAt' = IF mode = "input" THEN null ELSE openedAt
    /\ pausedAt' = null
    /\ UNCHANGED <<settingsReturnMode, clock>>

\* start() that enters the prompter on every call, also on a resume
handleStart_alwaysEnters ==
    /\ IF mode = "input"
         THEN /\ progress' = 0
              /\ startProgress' = 0
         ELSE /\ startProgress' = progress
              /\ UNCHANGED progress
    /\ enterPrompter
    /\ isPlaying' = TRUE
    /\ UNCHANGED content
    /\ UNCHANGED outside
    /\ TickEffect(null)
    /\ resumeFrom' = IF mode = "input" THEN null ELSE pausedAt
    /\ openedAt' = IF mode = "input" THEN null ELSE openedAt
    /\ pausedAt' = null
    /\ UNCHANGED <<settingsReturnMode, clock>>

\* lines 181-191
handleStart ==
    /\ IF mode = "input"
         THEN /\ progress' = 0
              /\ startProgress' = 0
              /\ enterPrompter
         ELSE /\ startProgress' = progress
              /\ UNCHANGED <<progress, mode>>
              /\ NoWindowCall
    /\ isPlaying' = TRUE
    /\ UNCHANGED content
    /\ UNCHANGED outside
    /\ TickEffect(null)
    /\ resumeFrom' = IF mode = "input" THEN null ELSE pausedAt
    /\ openedAt' = IF mode = "input" THEN null ELSE openedAt
    /\ pausedAt' = null
    /\ UNCHANGED <<settingsReturnMode, clock>>

\* lines 193-197
handlePause ==
    IF ~isPlaying
      THEN UNCHANGED vars
      ELSE /\ isPlaying' = FALSE
           /\ startProgress' = progress
           /\ UNCHANGED content
           /\ UNCHANGED outside
           /\ TickEffect(startTime)
           /\ NoWindowCall
           /\ pausedAt' = progress
           /\ resumeFrom' = null
           /\ openedAt' = null
           /\ UNCHANGED <<mode, progress, settingsReturnMode, clock>>

\* stop() that leaves the progress where it was
handleStop_keepsProgress ==
    /\ isPlaying' = FALSE
    /\ startProgress' = 0
    /\ mode' = "input"
    /\ UNCHANGED <<progress, content>>
    /\ UNCHANGED outside
    /\ TickEffect(null)
    /\ NoWindowCall
    /\ pausedAt' = null
    /\ resumeFrom' = null
    /\ openedAt' = null
    /\ UNCHANGED <<settingsReturnMode, clock>>

\* lines 199-205 with exitPrompter (139-141)
handleStop ==
    /\ isPlaying' = FALSE
    /\ progress' = 0
    /\ startProgress' = 0
    /\ mode' = "input"
    /\ UNCHANGED content
    /\ UNCHANGED outside
    /\ TickEffect(null)
    /\ NoWindowCall
    /\ pausedAt' = null
    /\ resumeFrom' = null
    /\ openedAt' = null
    /\ UNCHANGED <<settingsReturnMode, clock>>

\* the start button: input screen (258-264), prompter screen when paused (282-288)
startButton ==
    /\ mounted
    /\ mode = "input" \/ (mode = "prompter" /\ ~isPlaying)
    /\ handleStart

\* the pause button: prompter screen while playing (273-280)
pauseButton ==
    /\ mounted
    /\ mode = "prompter" /\ isPlaying
    /\ handlePause

\* the stop button: prompter screen (290-296)
stopButton ==
    /\ mounted
    /\ mode = "prompter"
    /\ handleStop

\* startProgressRef.current + elapsed / totalSeconds at a frame stamped time
nextProgress(time) ==
    LET anchor == IF startTime = null THEN time ELSE startTime
    IN  Plus(startProgress,
             ElapsedOverTotal(time - anchor, content, settings.wordsPerMinute))

\* a frame callback that never requests the next frame
tick_noNextFrame(time) ==
    /\ clock' = time
    /\ IF Geq(nextProgress(time), PDen)
         THEN /\ progress' = PDen
              /\ startProgress' = PDen
              /\ isPlaying' = FALSE
         ELSE /\ progress' = nextProgress(time)
              /\ UNCHANGED <<startProgress, isPlaying>>
    /\ UNCHANGED content
    /\ UNCHANGED outside
    /\ startTime' = IF startTime = null THEN time ELSE startTime
    /\ scheduled' = FALSE
    /\ NoWindowCall
    /\ resumeFrom' = IF isPlaying' THEN resumeFrom ELSE null
    /\ openedAt' = IF isPlaying' THEN openedAt ELSE null
    /\ UNCHANGED <<mode, settingsReturnMode, pausedAt>>

\* lines 99-113: the pending frame callback runs, stamped time
tick(time) ==
    /\ clock' = time
    /\ IF Geq(nextProgress(time), PDen)
         THEN /\ progress' = PDen
              /\ startProgress' = PDen
              /\ isPlaying' = FALSE
         ELSE /\ progress' = nextProgress(time)
              /\ UNCHANGED <<startProgress, isPlaying>>
    /\ UNCHANGED content
    /\ UNCHANGED outside
    /\ TickEffect(IF startTime = null THEN time ELSE startTime)
    /\ NoWindowCall
    /\ resumeFrom' = IF isPlaying' THEN resumeFrom ELSE null
    /\ openedAt' = IF isPlaying' THEN openedAt ELSE null
    /\ UNCHANGED <<mode, settingsReturnMode, pausedAt>>

\* an animation frame arrives, later than the one before
Tick ==
    /\ scheduled
    /\ \E gap \in FrameGaps :
         /\ clock + gap <= MaxSeconds * 1000
         /\ tick(clock + gap)

\* a textarea that is also shown on the prompter and settings screens
Edit_inAnyMode ==
    /\ mounted
    /\ \E text \in EditTexts : content' = text
    /\ progress' = 0
    /\ startProgress' = 0
    /\ isPlaying' = FALSE
    /\ UNCHANGED outside
    /\ TickEffect(startTime)
    /\ NoWindowCall
    /\ pausedAt' = null
    /\ resumeFrom' = null
    /\ openedAt' = null
    /\ UNCHANGED <<mode, settingsReturnMode, clock>>

\* lines 513-520: the textarea of the input screen
Edit ==
    /\ mounted
    /\ mode = "input"
    /\ \E text \in EditTexts : content' = text
    /\ progress' = 0
    /\ startProgress' = 0
    /\ isPlaying' = FALSE
    /\ UNCHANGED outside
    /\ TickEffect(startTime)
    /\ NoWindowCall
    /\ pausedAt' = null
    /\ resumeFrom' = null
    /\ openedAt' = null
    /\ UNCHANGED <<mode, settingsReturnMode, clock>>

\* the Space key without the early return of line 209
onKey_ignoresSettings ==
    /\ mounted
    /\ IF mode = "input" THEN handleStart
       ELSE IF isPlaying THEN handlePause
       ELSE handleStart

\* lines 207-223: the Space key
onKey ==
    /\ mounted
    /\ IF mode = "settings" THEN UNCHANGED vars
       ELSE IF mode = "input" THEN handleStart
       ELSE IF isPlaying THEN handlePause
       ELSE handleStart

----------------------------------------------------------------------------
(* Mode state machine *)

\* openSettings without setIsPlaying(false)
openSettings_keepsPlaying ==
    IF mode = "settings"
      THEN UNCHANGED vars
      ELSE /\ settingsReturnMode' = mode
           /\ mode' = "settings"
           /\ UNCHANGED <<isPlaying, content>>
           /\ UNCHANGED outside
           /\ TickEffect(startTime)
           /\ NoWindowCall
           /\ resumeFrom' = null
           /\ openedAt' = IF isPlaying THEN progress ELSE openedAt
           /\ UNCHANGED <<progress, startProgress, clock, pausedAt>>

\* openSettings without the early return of line 144
openSettings_noGuard ==
    /\ settingsReturnMode' = mode
    /\ isPlaying' = FALSE
    /\ mode' = "settings"
    /\ UNCHANGED content
    /\ UNCHANGED outside
    /\ TickEffect(startTime)
    /\ NoWindowCall
    /\ resumeFrom' = null
    /\ openedAt' = IF isPlaying THEN progress ELSE openedAt
    /\ UNCHANGED <<progress, startProgress, clock, pausedAt>>

\* lines 143-148
openSettings ==
    IF mode = "settings"
      THEN UNCHANGED vars
      ELSE /\ settingsReturnMode' = mode
           /\ isPlaying' = FALSE
           /\ mode' = "settings"
           /\ UNCHANGED content
           /\ UNCHANGED outside
           /\ TickEffect(startTime)
           /\ NoWindowCall
           /\ resumeFrom' = null
           /\ openedAt' = IF isPlaying THEN progress ELSE openedAt
           /\ UNCHANGED <<progress, startProgress, clock, pausedAt>>

\* the settings button of the input and prompter screens (245-253)
settingsButton ==
    /\ mounted
    /\ openSettings

\* lines 150-152
closeSettings ==
    /\ mode' = settingsReturnMode
    /\ UNCHANGED <<isPlaying, progress, content, startTime, startProgress,
                   settingsReturnMode, scheduled, clock, pausedAt, resumeFrom,
                   openedAt>>
    /\ UNCHANGED outside
    /\ NoWindowCall

\* the back button of the settings screen (328-334)
backButton ==
    /\ mounted
    /\ mode = "settings"
    /\ closeSettings

----------------------------------------------------------------------------
(* Settings store *)

\* lines 154-156: setSettings((prev) => ({ ...prev, ...next })) and what follows it
updateSettings(next) ==
    /\ settings' = next
    /\ PersistEffect
    /\ UNCHANGED <<isPlaying, content>>
    /\ TickEffect(startTime)
    /\ NoWindowCall
    /\ restored' = FALSE
    /\ UNCHANGED <<os, pending, loadPc, stored, settled, unhandled, rejected>>
    /\ UNCHANGED playback

\* lines 405-415: the speed slider of the settings screen
slideWordsPerMinute ==
    /\ mounted
    /\ mode = "settings"
    /\ \E v \in SliderWordsPerMinute :
         updateSettings([settings EXCEPT !.wordsPerMinute = v])

\* lines 423-433: the font size slider
slideFontSize ==
    /\ mounted
    /\ mode = "settings"
    /\ \E v \in SliderFontSize :
         updateSettings([settings EXCEPT !.fontSize = v])

\* lines 441-451: the line height slider
slideLineHeight ==
    /\ mounted
    /\ mode = "settings"
    /\ \E v \in SliderLineHeight :
         updateSettings([settings EXCEPT !.lineHeight = v])

\* lines 158-166, up to the await
toggleAutoStart ==
    /\ Len(pending) < MaxPending
    /\ LET next == ~settings.autoStart
       IN  /\ settings' = [settings EXCEPT !.autoStart = next]
           /\ pending' = Append(pending, Call(IF next THEN "enable" ELSE "disable",
                                              "toggle", next, settings.autoStart))
    /\ PersistEffect
    /\ UNCHANGED <<isPlaying, content>>
    /\ TickEffect(startTime)
    /\ NoWindowCall
    /\ restored' = FALSE
    /\ UNCHANGED <<os, loadPc, stored, settled, unhandled, rejected>>
    /\ UNCHANGED playback

\* lines 172-175, up to the await
restoreDefaults ==
    /\ Len(pending) < MaxPending
    /\ settings' = DEFAULT_SETTINGS
    /\ pending' = Append(pending, Call("disable", "restore", FALSE, settings.autoStart))
    /\ PersistEffect
    /\ UNCHANGED <<isPlaying, content>>
    /\ TickEffect(startTime)
    /\ NoWindowCall
    /\ restored' = TRUE
    /\ UNCHANGED <<os, loadPc, stored, settled, unhandled, rejected>>
    /\ UNCHANGED playback

\* the autostart switch of the settings screen (372-397)
autoStartSwitch ==
    /\ mounted
    /\ mode = "settings"
    /\ toggleAutoStart

\* the restore button of the settings screen (337-355)
restoreButton ==
    /\ mounted
    /\ mode = "settings"
    /\ restoreDefaults

Remove(seq, i) == SubSeq(seq, 1, i - 1) \o SubSeq(seq, i + 1, Len(seq))

\* the await of the call sits in a try block with a catch: lines 161-169, 174-178
caught(call) == call.by \in {"toggle", "restore"}

\* a catch block that writes the value just tried instead of the one before
afterFailure_keepsNext(call, s) ==
    IF call.by = "toggle" THEN [s EXCEPT !.autoStart = call.next] ELSE s

\* what the catch blocks do to settings: lines 167-169 and 176-178
afterFailure(call, s) ==
    IF call.by = "toggle" THEN [s EXCEPT !.autoStart = ~call.next] ELSE s

\* an enable()/disable() call settles: it took effect, or it was rejected
BridgeSettles ==
    /\ \E i \in 1..Len(pending), ok \in BOOLEAN :
         LET call == pending[i]
         IN  /\ pending' = Remove(pending, i)
             /\ settled' = [call |-> call, ok |-> ok]
             /\ os' = IF ok THEN call.op = "enable" ELSE os
             /\ settings' = IF ok \/ ~caught(call) THEN settings
                            ELSE afterFailure(call, settings)
             /\ storage' = IF ok \/ ~caught(call) \/ call.by # "toggle" THEN storage
                           ELSE JSONstringify(settings')
             /\ unhandled' = (unhandled \/ (~ok /\ ~caught(call)))
             /\ rejected' = (rejected \/ ~ok)
    /\ UNCHANGED <<isPlaying, content>>
    /\ TickEffect(startTime)
    /\ NoWindowCall
    /\ UNCHANGED <<loadPc, stored, restored>>
    /\ UNCHANGED playback

----------------------------------------------------------------------------
(* The whole program *)

Next ==
    \/ Mount
    \/ LoadComplete
    \/ startButton
    \/ pauseButton
    \/ stopButton
    \/ Tick
    \/ Edit
    \/ onKey
    \/ settingsButton
    \/ backButton
    \/ slideWordsPerMinute
    \/ slideFontSize
    \/ slideLineHeight
    \/ autoStartSwitch
    \/ restoreButton
    \/ BridgeSettles

Spec == Init /\ [][Next]_vars

\* The playback clock and the mode state machine.  fontSize, lineHeight,
\* autoStart and the autostart bridge are read by none of their steps, so
\* the steps that change nothing else are left out.
InitPlayback == Init /\ storage \in SpeedItems /\ os = FALSE

NextPlayback ==
    \/ Mount
    \/ LoadComplete
    \/ startButton
    \/ pauseButton
    \/ stopButton
    \/ Tick
    \/ Edit
    \/ onKey
    \/ settingsButton
    \/ backButton
    \/ slideWordsPerMinute

SpecPlayback == InitPlayback /\ [][NextPlayback]_vars

\* The playback clock while the settings screen is never opened, with the
\* browser delivering every pending animation frame: a frame callback that
\* stays requested is eventually run (lines 112, 117).
NextRun ==
    \/ Mount
    \/ LoadComplete
    \/ startButton
    \/ pauseButton
    \/ stopButton
    \/ Tick
    \/ Edit
    \/ onKey

SpecRunFair == InitPlayback /\ [][NextRun]_vars /\ WF_vars(Tick)

\* The settings store, the autostart bridge and the settings screen.  The
\* script and the playback clock are read by none of these steps.
NextSettings ==
    \/ Mount
    \/ LoadComplete
    \/ settingsButton
    \/ backButton
    \/ slideWordsPerMinute
    \/ slideFontSize
    \/ slideLineHeight
    \/ autoStartSwitch
    \/ restoreButton
    \/ BridgeSettles

SpecSettings == Init /\ [][NextSettings]_vars

----------------------------------------------------------------------------
(* Comparisons as JavaScript makes them *)

Gt(a, b) == a # NaN /\ b # NaN /\ a > b
Lt(a, b) == a # NaN /\ b # NaN /\ a < b
Min(a, b) == IF a <= b THEN a ELSE b
InRange(x, lo, hi) == x # NaN /\ lo <= x /\ x <= hi

----------------------------------------------------------------------------
(* Claims *)

\* C1: during a playing interval every tick writes a progress that is at
\* least the progress before it, also the first tick after the chain was
\* re-scheduled because totalSeconds changed.  Stated here for the ticks
\* whose speed and progress are numbers, so that a violation does not rest
\* on a NaN speed.
C1_TickNeverLowersProgress ==
    [][(Tick /\ settings.wordsPerMinute # NaN /\ progress # NaN)
         => progress' >= progress]_vars

\* C2: in an interval resumed after pause() at progress p, the first tick
\* leaves progress = p and every later tick gives
\* progress = p + (t - startTime) / 1000 / totalSeconds, at least p
\* (the tick that completes the script gives 1).
C2_ResumeContinuesFromPause ==
    [][(Tick /\ resumeFrom # null /\ resumeFrom # NaN)
         => IF startTime = null
              THEN progress' = resumeFrom
              ELSE /\ Geq(progress', resumeFrom)
                   /\ progress' = Min(PDen,
                         resumeFrom + (clock' - startTime) * settings.wordsPerMinute
                                        * (WordsLcm \div totalWords(content)))]_vars

\* C3: stop() leaves progress = 0, startProgress = 0, startTime = none,
\* isPlaying = false and mode = Input, from any state; and once progress is 0
\* with playback off, it stays 0 on every step that is not a start().
C3_StopResets ==
    [][/\ stopButton => /\ progress' = 0
                        /\ startProgress' = 0
                        /\ startTime' = null
                        /\ ~isPlaying'
                        /\ mode' = "input"
       /\ (progress = 0 /\ ~isPlaying /\ ~handleStart) => progress' = 0]_vars

\* C3 witness: back on the input screen after frames were played: stop() acted
C3_Witness ==
    /\ mode = "input" /\ clock > 0
    /\ progress = 0 /\ startProgress = 0 /\ startTime = null /\ ~isPlaying

\* C4: a tick whose candidate is at least 1 sets progress = 1,
\* startProgress = 1, isPlaying = false and leaves mode = Prompter; from then
\* on, until stop() or an edit, progress is neither above 1 nor below 1,
\* also when start() is invoked again.
C4_NaturalCompletion ==
    [][/\ (Tick /\ Geq(nextProgress(clock'), PDen))
            => /\ progress' = PDen
               /\ startProgress' = PDen
               /\ ~isPlaying'
               /\ mode = "prompter" /\ mode' = "prompter"
       /\ (~Gt(progress, PDen) /\ ~Lt(progress, PDen) /\ ~stopButton /\ ~Edit)
            => (~Gt(progress', PDen) /\ ~Lt(progress', PDen))]_vars

\* C4 witness: start() invoked again after natural completion
C4_Witness == progress = PDen /\ startProgress = PDen /\ isPlaying /\ mode = "prompter"

\* C5: settingsReturnMode is never Settings; entering Settings records the
\* mode left, nothing changes the record while in Settings, and leaving
\* Settings goes to the recorded mode.
C5_SettingsReturn ==
    /\ [](settingsReturnMode # "settings")
    /\ [][/\ (mode # "settings" /\ mode' = "settings") => settingsReturnMode' = mode
          /\ (mode = "settings" /\ mode' = "settings")
                => UNCHANGED <<settingsReturnMode, isPlaying>>
          /\ (mode = "settings" /\ mode' # "settings") => mode' = settingsReturnMode]_vars

\* C5 witness: Settings was opened from Prompter and closed again
C5_Witness == mode = "prompter" /\ settingsReturnMode = "prompter"

\* C6: in every reachable state wordsPerMinute is in [20, 240], fontSize in
\* [20, 64], lineHeight in [28, 96], whatever record load() read; so
\* totalSeconds is strictly positive.
C6_SettingsWithinBounds ==
    /\ InRange(settings.wordsPerMinute, 20, 240)
    /\ InRange(settings.fontSize, 20, 64)
    /\ InRange(settings.lineHeight, 28, 96)
    /\ totalWords(content) * 60 > 0

\* C7: load() of a record whose wordsPerMinute, fontSize or lineHeight is
\* missing or not a number ends with that field at its default.
C7_MalformedGivesDefaults ==
    [][LoadComplete =>
         /\ stored.wordsPerMinute.k # "number" => settings'.wordsPerMinute = WORDS_PER_MINUTE
         /\ stored.fontSize.k # "number" => settings'.fontSize = FONT_SIZE
         /\ stored.lineHeight.k # "number" => settings'.lineHeight = LINE_HEIGHT]_vars

\* C8: toggleAutoStart() flips autoStart and calls enable (new value true)
\* or disable; when that call fails, autoStart is set to the value it had
\* before the toggle, the other fields stay, and no rejection escapes.
C8_ToggleRollsBack ==
    /\ [](~unhandled)
    /\ [][/\ autoStartSwitch =>
               /\ settings' = [settings EXCEPT !.autoStart = ~settings.autoStart]
               /\ pending' = Append(pending, pending'[Len(pending')])
               /\ pending'[Len(pending')].op =
                     IF settings'.autoStart THEN "enable" ELSE "disable"
          /\ (BridgeSettles /\ ~settled'.ok /\ settled'.call.by = "toggle") =>
               settings' = [settings EXCEPT !.autoStart = settled'.call.was]]_vars

\* C8 witness: a toggle's bridge call failed and autoStart is what it was before
C8_Witness ==
    /\ ~settled.ok /\ settled.call.by = "toggle"
    /\ settings.autoStart = settled.call.was

\* C9: after restoreDefaults() the settings are the defaults and stay so
\* until the next user-initiated change, whatever the bridge calls in flight
\* do.  Stated here for the steps taken after load() has completed, by
\* which the defaults in force since restoreDefaults() stay in force as long
\* as no user-initiated change is made.
C9_DefaultsStay ==
    [][(restored /\ restored' /\ loadPc = "done" /\ settings = DEFAULT_SETTINGS)
         => settings' = DEFAULT_SETTINGS]_vars

\* C10: the toggle signal starts from Input (progress and startProgress 0,
\* mode Prompter, playing), pauses in Prompter while playing, resumes in
\* Prompter while not playing, and changes nothing in Settings.
C10_ToggleByMode ==
    [][onKey =>
         /\ mode = "input" =>
              (progress' = 0 /\ startProgress' = 0 /\ mode' = "prompter" /\ isPlaying')
         /\ (mode = "prompter" /\ isPlaying) =>
              (~isPlaying' /\ startProgress' = progress
                 /\ UNCHANGED <<progress, mode>>)
         /\ (mode = "prompter" /\ ~isPlaying) =>
              (isPlaying' /\ startProgress' = progress /\ startTime' = null
                 /\ UNCHANGED <<progress, mode>>)
         /\ mode = "settings" =>
              UNCHANGED <<mode, isPlaying, progress, startProgress, startTime,
                          settings>>]_vars

\* C10 witness: paused in Prompter at a progress past the start
C10_Witness ==
    /\ mode = "prompter" /\ ~isPlaying
    /\ pausedAt # null /\ startProgress = pausedAt /\ Gt(pausedAt, 0)

\* C11: a tick at t ms after the anchoring tick writes
\* progress = min(1, startProgress + t / (1000 * totalSeconds)), in the
\* arithmetic of the program; with a 10-word script at 60 words per minute
\* started from Input, t = 5000 gives 1/2 with playback still on and
\* t = 11000 gives 1 with playback off.
C11_TickFormula ==
    [][Tick =>
         LET t == IF startTime = null THEN 0 ELSE clock' - startTime
             wpm == settings.wordsPerMinute
             sum == IF wpm = NaN \/ startProgress = NaN
                      THEN NaN
                      ELSE startProgress + t * wpm * (WordsLcm \div totalWords(content))
             tenAtSixty == content = TenWords /\ wpm = 60 /\ startProgress = 0
         IN  /\ progress' = IF sum = NaN THEN NaN ELSE Min(PDen, sum)
             /\ (tenAtSixty /\ t = 5000) => (2 * progress' = PDen /\ isPlaying')
             /\ (tenAtSixty /\ t = 11000) => (progress' = PDen /\ ~isPlaying')]_vars

\* C11 witness: the 10-word script at 60 words per minute, completed by the
\* tick 11000 ms after the anchoring tick
C11_Witness ==
    /\ content = TenWords /\ settings.wordsPerMinute = 60
    /\ startTime # null /\ clock - startTime = 11000
    /\ progress = PDen /\ ~isPlaying /\ mode = "prompter"

\* C12: an edit of the script happens in Input mode only; it replaces
\* content, sets progress = 0, startProgress = 0 and isPlaying = false, and
\* leaves mode = Input and the settings as they were.
C12_EditResets ==
    [][(Edit \/ content' # content)
         => /\ mode = "input" /\ mode' = "input"
            /\ content' \in EditTexts
            /\ progress' = 0 /\ startProgress' = 0 /\ ~isPlaying'
            /\ settings' = settings]_vars

\* C12 witness: the script was replaced after a run that had been stopped
C12_Witness ==
    /\ content # DEFAULT_TEXT /\ clock > 0
    /\ mode = "input" /\ progress = 0 /\ startProgress = 0 /\ ~isPlaying

\* C13: a step issues setAlwaysOnTop(true) once when it takes mode from
\* Input to Prompter, and not at all otherwise: not on a resume in
\* Prompter, a pause, a stop, on opening Settings or on returning from
\* Settings to Prompter.
C13_OnTopOncePerEntry ==
    [][IF mode = "input" /\ mode' = "prompter"
         THEN setAlwaysOnTop' = 1
         ELSE setAlwaysOnTop' = 0]_vars

\* C13 witness: the prompter was entered from Input again after an earlier
\* run, and the call was issued
C13_Witness == setAlwaysOnTop = 1 /\ mode = "prompter" /\ clock > 0

\* C14: when load() completes, autoStart in memory is what its isEnabled()
\* query returned, and false when the query failed, whatever autoStart the
\* persisted record holds.
C14_LoadTakesLiveAutoStart ==
    [][\A ok \in BOOLEAN :
         loadCompletes(ok) => settings'.autoStart = (IF ok THEN os ELSE FALSE)]_vars

\* C14 witness: the record persisted with autoStart true and speed 120 was
\* loaded while autostart is off in the operating system, and no toggle has
\* been made since
C14_Witness ==
    /\ loadPc = "done" /\ settings.wordsPerMinute = 120
    /\ ~settings.autoStart /\ ~os
    /\ pending = <<>> /\ settled.call = NoCall

C16_PlayingOnlyInPrompter ==
    /\ isPlaying => mode = "prompter"
    /\ mode = "input" => (progress = 0 /\ startProgress = 0)

\* C16 witness: back on the input screen after a run during which Settings
\* had been opened from the prompter
C16_Witness ==
    /\ mode = "input" /\ settingsReturnMode = "prompter" /\ clock > 0
    /\ ~isPlaying /\ progress = 0 /\ startProgress = 0

\* the smallest distance between two frames
MinGap == CHOOSE g \in FrameGaps : \A h \in FrameGaps : g <= h

\* the frames that complete the anchored interval fit under MaxSeconds:
\* enough frames MinGap apart to cover what is left of the script at the
\* speed in force
FramesFit ==
    LET rate == settings.wordsPerMinute * (WordsLcm \div totalWords(content))
        left == PDen - startProgress
        need == (left + rate - 1) \div rate
    IN  startTime + MinGap * ((need + MinGap - 1) \div MinGap) <= MaxSeconds * 1000

\* playing in an anchored interval with the speed within its bounds
Running ==
    /\ isPlaying /\ startTime # null
    /\ InRange(settings.wordsPerMinute, 20, 240)
    /\ InRange(startProgress, 0, PDen)
    /\ FramesFit

\* the script ran to its end and no frame is pending
Completed == progress = PDen /\ ~isPlaying /\ ~scheduled

\* pause(), stop() or open-settings ended the interval
Interrupted == mode # "prompter" \/ (~isPlaying /\ pausedAt # null)

\* C17: with frames delivered fairly and the speed within its bounds, a
\* started playback that is not paused, stopped or left for Settings ends
\* with progress = 1, isPlaying = false and no frame pending.  In three
\* parts: the frame requested by start() or by a re-schedule is delivered
\* and anchors the interval; an anchored interval runs to the end of the
\* script once load() has completed; and while load() is still awaited it
\* runs to the end or load() completes.
C17_PlaybackCompletes ==
    /\ (isPlaying /\ startTime = null /\ clock + MinGap <= MaxSeconds * 1000)
          ~> (startTime # null \/ Completed \/ Interrupted)
    /\ (Running /\ loadPc = "done") ~> (Completed \/ Interrupted)
    /\ (Running /\ loadPc # "done") ~> (Completed \/ Interrupted \/ loadPc = "done")

\* C17 witness: after load(), the script ran to its end at a frame later
\* than the anchoring one
C17_Witness ==
    /\ Completed /\ mode = "prompter" /\ pausedAt = null
    /\ startTime # null /\ clock > startTime /\ loadPc = "done"

\* C18: in an interval started in Prompter after Settings had been opened
\* while playing at progress p, the first tick leaves progress = p and every
\* later tick gives a progress of at least p, whatever the speed is by then.
\* Stated here for p past the start of the script.
C18_SettingsResumeContinues ==
    [][(Tick /\ openedAt # null /\ Gt(openedAt, 0))
         => IF startTime = null
              THEN progress' = openedAt
              ELSE Geq(progress', openedAt)]_vars

\* C19: autoStart in memory mirrors the operating system at quiescence.
\* Stated here for the step that brings quiescence: when the last bridge
\* call in flight settles, load() being complete and no enable() or
\* disable() call having been rejected so far, autoStart in memory equals
\* the autostart state of the operating system.
C19_AutoStartMirrorsOs ==
    [][(BridgeSettles /\ loadPc = "done" /\ pending' = <<>> /\ ~rejected')
         => settings'.autoStart = os']_vars

\* C20: a change of wordsPerMinute, fontSize or lineHeight, or a
\* restoreDefaults(), made before load() has completed is still in effect,
\* in memory and in the persisted record, once load() has completed.  Until
\* then only the user moves these fields away from their defaults, so a
\* field that is off its default when load() completes was set by the user.
C20_EarlyChangeSurvivesLoad ==
    [][LoadComplete =>
         /\ settings.wordsPerMinute # WORDS_PER_MINUTE
               => settings'.wordsPerMinute = settings.wordsPerMinute
         /\ settings.fontSize # FONT_SIZE => settings'.fontSize = settings.fontSize
         /\ settings.lineHeight # LINE_HEIGHT
               => settings'.lineHeight = settings.lineHeight
         /\ restored => /\ settings'.wordsPerMinute = WORDS_PER_MINUTE
                        /\ settings'.fontSize = FONT_SIZE
                        /\ settings'.lineHeight = LINE_HEIGHT
         /\ storage' = JSONstringify(settings')]_vars

====
